---- MODULE Spec2Model ----
(***************************************************************************)
(* Model of the table-annotator backend:                                   *)
(*   - api/api.py: the four Flask route handlers over the image directory  *)
(*   - api/table_annotator/img.py: grid algebra, crop, extract_table_image,*)
(*     get_cell_grid and predict_next_row_position                         *)
(* File names and JSON documents are sequences of tokens, so that          *)
(* os.path.basename, os.path.splitext, serialisation and parsing are       *)
(* computed rather than assumed.                                           *)
(***************************************************************************)
EXTENDS Integers, Sequences, FiniteSets, TLC

VARIABLES
    files,      \* the image directory: file name -> file content
    request,    \* the last HTTP request handled
    response,   \* the response to it
    posted,     \* history: sanitised names for which store_tables succeeded
    input,      \* argument record of the last library call (img.py)
    output      \* its result

vars == <<files, request, response, posted, input, output>>

(***************************************************************************)
(* Bounds                                                                  *)
(***************************************************************************)
MaxBodyLen == 1      \* longest JSON list posted as a request body

MaxGridSide == 2     \* most rows / columns of the cell grids the grid algebra starts from

MaxCropSide == 3     \* largest height / width of the images handed to crop

CropMargin == 2      \* how far a crop rectangle's corners may lie outside those images

MaxExtent == 2       \* extract_table_image: image sides are BORDER_OFFSET + 1..MaxExtent

MaxBoundaries == 1   \* get_cell_grid: most recorded row / column boundaries

MaxCellExtent == 2   \* get_cell_grid: largest outline height / width

MaxRows == 2         \* predict_next_row_position: most recorded rows

MaxRowPos == 6       \* predict_next_row_position: largest recorded row offset

MaxTableH == 7       \* predict_next_row_position: largest outline height

(***************************************************************************)
(* Small helpers                                                           *)
(***************************************************************************)
Max(a, b) == IF a >= b THEN a ELSE b

Min(a, b) == IF a <= b THEN a ELSE b

SetMax(S) == CHOOSE x \in S : \A y \in S : y <= x

SeqsUpTo(S, n) == UNION {[1..k -> S] : k \in 0..n}

\* str.rfind: index of the last occurrence of c in s, 0 when absent
rfind(s, c) ==
    LET I == {i \in 1..Len(s) : s[i] = c}
    IN  IF I = {} THEN 0 ELSE SetMax(I)

(***************************************************************************)
(* os.path helpers as the handlers use them                                *)
(***************************************************************************)
\* os.path.basename: everything after the last "/"
basename(p) == SubSeq(p, rfind(p, "/") + 1, Len(p))

\* os.path.splitext(p)[0]: cut at the last "." unless only dots precede it
splitext_root(p) ==
    LET sepIndex == rfind(p, "/")
        dotIndex == rfind(p, ".")
    IN  IF /\ dotIndex > sepIndex
           /\ \E k \in (sepIndex + 1)..(dotIndex - 1) : p[k] # "."
        THEN SubSeq(p, 1, dotIndex - 1)
        ELSE p

\* os.path.splitext(p)[1]
splitext_ext(p) == SubSeq(p, Len(splitext_root(p)) + 1, Len(p))

\* os.path.isfile(os.path.join(IMAGE_PATH, name)) on the flat image directory
isfile(dir, name) == name \in DOMAIN dir

(***************************************************************************)
(* JSON values, and table_annotator.io.write_json / read_json              *)
(***************************************************************************)
JNull == [t |-> "null", n |-> 0, items |-> <<>>]

JNum(k) == [t |-> "num", n |-> k, items |-> <<>>]

JStr(k) == [t |-> "str", n |-> k, items |-> <<>>]

JList(s) == [t |-> "list", n |-> 0, items |-> s]

\* an object: items alternates key (a JStr) and value
JObj(s) == [t |-> "obj", n |-> 0, items |-> s]

NumTok == <<"0", "1", "2", "3">>

StrTok == <<"'rows'", "'columns'">>

TokIndex(toks, x) == CHOOSE i \in 1..Len(toks) : toks[i] = x

IsTok(toks, x) == \E i \in 1..Len(toks) : toks[i] = x

RECURSIVE dumps(_)
RECURSIVE dumps_items(_, _, _)
\* json serialisation of a value to its text
dumps(v) ==
    IF v.t = "null" THEN <<"null">>
    ELSE IF v.t = "num" THEN <<NumTok[v.n + 1]>>
    ELSE IF v.t = "str" THEN <<StrTok[v.n]>>
    ELSE IF v.t = "list" THEN <<"[">> \o dumps_items(v.items, 1, FALSE) \o <<"]">>
    ELSE <<"{">> \o dumps_items(v.items, 1, TRUE) \o <<"}">>

dumps_items(s, i, isObj) ==
    IF i > Len(s) THEN <<>>
    ELSE LET sep == IF i = 1 THEN <<>>
                    ELSE IF isObj /\ i % 2 = 0 THEN <<":">>
                    ELSE <<",">>
         IN  sep \o dumps(s[i]) \o dumps_items(s, i + 1, isObj)

RECURSIVE parse_value(_, _)
RECURSIVE parse_items(_, _, _, _)
\* json parsing: the value starting at token i and the index after it
parse_value(s, i) ==
    IF s[i] = "null" THEN [val |-> JNull, next |-> i + 1]
    ELSE IF IsTok(NumTok, s[i]) THEN [val |-> JNum(TokIndex(NumTok, s[i]) - 1), next |-> i + 1]
    ELSE IF IsTok(StrTok, s[i]) THEN [val |-> JStr(TokIndex(StrTok, s[i])), next |-> i + 1]
    ELSE IF s[i] = "[" THEN
        IF s[i + 1] = "]" THEN [val |-> JList(<<>>), next |-> i + 2]
        ELSE parse_items(s, i + 1, <<>>, FALSE)
    ELSE
        IF s[i + 1] = "}" THEN [val |-> JObj(<<>>), next |-> i + 2]
        ELSE parse_items(s, i + 1, <<>>, TRUE)

parse_items(s, i, acc, isObj) ==
    LET e == parse_value(s, i)
        got == Append(acc, e.val)
    IN  IF s[e.next] \in {",", ":"} THEN parse_items(s, e.next + 1, got, isObj)
        ELSE [val |-> IF isObj THEN JObj(got) ELSE JList(got), next |-> e.next + 1]

loads(text) == parse_value(text, 1).val

ImageContent(w, h) == [kind |-> "image", w |-> w, h |-> h, text |-> <<>>]

TextContent(text) == [kind |-> "text", w |-> 0, h |-> 0, text |-> text]

\* table_annotator.io.write_json(path, value): overwrite the file with the text
write_json(dir, name, value) ==
    [f \in DOMAIN dir \cup {name} |->
        IF f = name THEN TextContent(dumps(value)) ELSE dir[f]]

\* table_annotator.io.read_json(path)
read_json(dir, name) == loads(dir[name].text)

\* table_annotator.img.get_dimensions(table_annotator.io.read_image(path))
get_dimensions(image) == <<image.w, image.h>>

(***************************************************************************)
(* Requests, responses and the inputs drawn for them                       *)
(***************************************************************************)
A_JPG == <<"a", ".", "jpg">>

A_JPEG == <<"a", ".", "jpeg">>

B_JPG == <<"b", ".", "jpg">>

\* the image files in the directory when the server starts
ImageFiles == {A_JPG, A_JPEG, B_JPG}

\* the directory's content when the server starts: images only, none annotated
InitialFiles ==
    [f \in ImageFiles |->
        IF f = A_JPG THEN ImageContent(6, 4)
        ELSE IF f = A_JPEG THEN ImageContent(7, 5)
        ELSE ImageContent(9, 3)]

A_JSON == <<"a", ".", "json">>

\* names a client may put in the URL
RequestNames ==
    ImageFiles \cup
    { <<"d", ".", "jpg">>,                      \* no such file
      A_JSON,                                   \* an annotation file's own name
      <<".", ".", "/", "b", ".", "jpg">> }      \* with a directory component

JItems == { JNum(1), JObj(<<JStr(1), JList(<<JNum(2)>>)>>) }

\* request bodies: JSON lists of up to MaxBodyLen items, and null
Bodies == {JNull} \cup {JList(s) : s \in SeqsUpTo(JItems, MaxBodyLen)}

NoRequest == [op |-> "none", name |-> <<>>, body |-> JNull]

Request(op, name, body) == [op |-> op, name |-> name, body |-> body]

NoResponse ==
    [status |-> 0, key |-> "none", msg |-> "", json |-> JNull,
     images |-> {}, file |-> ImageContent(0, 0)]

MsgResponse(status, msg) ==
    [status |-> status, key |-> "msg", msg |-> msg, json |-> JNull,
     images |-> {}, file |-> ImageContent(0, 0)]

TablesResponse(tables) ==
    [status |-> 200, key |-> "tables", msg |-> "", json |-> tables,
     images |-> {}, file |-> ImageContent(0, 0)]

ImagesResponse(images) ==
    [status |-> 200, key |-> "images", msg |-> "", json |-> JNull,
     images |-> images, file |-> ImageContent(0, 0)]

FileResponse(content) ==
    [status |-> 200, key |-> "file", msg |-> "", json |-> JNull,
     images |-> {}, file |-> content]

SaveMissingMsg ==
    "The image for which you tried to save table data does not exist."

RetrieveMissingMsg ==
    "The image for which you tried to retrieve table data does not exist."

(***************************************************************************)
(* The route handlers                                                      *)
(***************************************************************************)
\* GET /images
list_images_response(dir) ==
    LET relevant_files ==
            {f \in DOMAIN dir : splitext_ext(f) \in {<<".", "jpeg">>, <<".", "jpg">>}}
    IN  ImagesResponse(
            { [name   |-> f,
               src    |-> <<"image", "/">> \o f,
               width  |-> get_dimensions(dir[f])[1],
               height |-> get_dimensions(dir[f])[2],
               center |-> [x |-> get_dimensions(dir[f])[1] \div 2,
                           y |-> get_dimensions(dir[f])[2] \div 2]]
              : f \in relevant_files })

\* GET /image/<name>
get_image_response(dir, name) ==
    IF isfile(dir, name) THEN FileResponse(dir[name])
    ELSE MsgResponse(404, "Not Found")

\* the annotation file the table handlers derive from the URL's image name
json_file_name(image_name) ==
    splitext_root(basename(image_name)) \o <<".", "json">>

\* a store_tables that writes without looking for the image first
store_tables_files_unguarded(dir, image_name, body) ==
    write_json(dir, json_file_name(image_name), body)

\* POST /tables/<image_name>: the directory after the request
store_tables_files(dir, image_name, body) ==
    IF ~isfile(dir, basename(image_name)) THEN dir
    ELSE write_json(dir, json_file_name(image_name), body)

\* POST /tables/<image_name>: the response
store_tables_response(dir, image_name) ==
    IF ~isfile(dir, basename(image_name)) THEN MsgResponse(404, SaveMissingMsg)
    ELSE MsgResponse(200, "okay!")

\* a get_tables that looks for <image name>.json, extension kept
get_tables_response_kept_ext(dir, image_name) ==
    IF ~isfile(dir, basename(image_name)) THEN MsgResponse(404, RetrieveMissingMsg)
    ELSE IF ~isfile(dir, basename(image_name) \o <<".", "json">>)
    THEN TablesResponse(JList(<<>>))
    ELSE TablesResponse(read_json(dir, basename(image_name) \o <<".", "json">>))

\* GET /tables/<image_name>
get_tables_response(dir, image_name) ==
    IF ~isfile(dir, basename(image_name)) THEN MsgResponse(404, RetrieveMissingMsg)
    ELSE IF ~isfile(dir, json_file_name(image_name)) THEN TablesResponse(JList(<<>>))
    ELSE TablesResponse(read_json(dir, json_file_name(image_name)))

NoInput == [op |-> "none"]

\* result of a library call: a value, or the exception that ended the call
NoOutput == [op |-> "none", ok |-> TRUE, err |-> "", value |-> <<>>]

Returned(op, v) == [op |-> op, ok |-> TRUE, err |-> "", value |-> v]

Raised(op, e) == [op |-> op, ok |-> FALSE, err |-> e, value |-> <<>>]

\* the API state of the specifications that only exercise img.py
ApiIdle ==
    /\ files = InitialFiles
    /\ request = NoRequest
    /\ response = NoResponse
    /\ posted = {}

InitApi ==
    /\ files = InitialFiles
    /\ request = NoRequest
    /\ response = NoResponse
    /\ posted = {}
    /\ input = NoInput
    /\ output = NoOutput

ListImages ==
    /\ request' = Request("list_images", <<>>, JNull)
    /\ response' = list_images_response(files)
    /\ UNCHANGED <<files, posted, input, output>>

GetImage ==
    \E name \in RequestNames :
        /\ request' = Request("get_image", name, JNull)
        /\ response' = get_image_response(files, name)
        /\ UNCHANGED <<files, posted, input, output>>

StoreTables ==
    \E image_name \in RequestNames, body \in Bodies :
        /\ request' = Request("store_tables", image_name, body)
        /\ files' = store_tables_files(files, image_name, body)
        /\ response' = store_tables_response(files, image_name)
        /\ posted' = IF store_tables_response(files, image_name).status = 200
                     THEN posted \cup {basename(image_name)}
                     ELSE posted
        /\ UNCHANGED <<input, output>>

GetTables ==
    \E image_name \in RequestNames :
        /\ request' = Request("get_tables", image_name, JNull)
        /\ response' = get_tables_response(files, image_name)
        /\ UNCHANGED <<files, posted, input, output>>

NextApi == ListImages \/ GetImage \/ StoreTables \/ GetTables

SpecApi == InitApi /\ [][NextApi]_vars

(***************************************************************************)
(* Claims about the HTTP API (checked under SpecApi)                       *)
(***************************************************************************)
IsTableRequest(r) == r.op \in {"store_tables", "get_tables"}

MissingMsg(r) == IF r.op = "store_tables" THEN SaveMissingMsg ELSE RetrieveMissingMsg

\* C1: a successful POST /tables/<image> with body J directly followed by
\* GET /tables/<image> for the same image answers 200 {"tables": J}.
C1_PostThenGetRoundTrip ==
    [][ ( /\ request.op = "store_tables"
          /\ response.status = 200
          /\ request'.op = "get_tables"
          /\ basename(request'.name) = basename(request.name) )
        => response' = TablesResponse(request.body) ]_vars

\* C1 witness: a GET that answers a non-empty posted list for an image that
\* was posted to, the annotation file holding that list's text.
C1_Witness ==
    /\ request.op = "get_tables"
    /\ basename(request.name) \in posted
    /\ response.status = 200
    /\ response.key = "tables"
    /\ Len(response.json.items) > 0
    /\ files[json_file_name(request.name)].text = dumps(response.json)

\* C2: a table request whose sanitised name is not a file of the directory is
\* answered 404 with the endpoint's message and leaves the directory as it was.
C2_MissingImageRejected ==
    [][ ( /\ IsTableRequest(request')
          /\ ~isfile(files, basename(request'.name)) )
        => ( /\ response' = MsgResponse(404, MissingMsg(request'))
             /\ files' = files ) ]_vars

\* C2 witness: a rejected POST after the directory has gained an annotation.
C2_Witness ==
    /\ request.op = "store_tables"
    /\ ~isfile(files, basename(request.name))
    /\ response = MsgResponse(404, SaveMissingMsg)
    /\ A_JSON \in DOMAIN files

\* C3: GET /tables/<image> for an existing image file for which no POST has
\* ever succeeded answers 200 {"tables": []}.
C3_NeverAnnotatedIsEmpty ==
    ( /\ request.op = "get_tables"
      /\ basename(request.name) \in ImageFiles
      /\ isfile(files, basename(request.name))
      /\ basename(request.name) \notin posted )
    => response = TablesResponse(JList(<<>>))

\* C4: the three GET endpoints leave every file unchanged, and a successful
\* POST /tables/<image> leaves every image file and the annotation file of
\* every other image unchanged.
C4_OnlyPostMutatesOwnAnnotation ==
    [][ /\ ( request'.op \in {"list_images", "get_image", "get_tables"}
             => files' = files )
        /\ ( (request'.op = "store_tables" /\ response'.status = 200)
             => /\ \A f \in ImageFiles : files'[f] = files[f]
                /\ \A m \in ImageFiles \ {basename(request'.name)} :
                      /\ isfile(files', json_file_name(m)) = isfile(files, json_file_name(m))
                      /\ isfile(files, json_file_name(m))
                            => files'[json_file_name(m)] = files[json_file_name(m)] )
      ]_vars

(***************************************************************************)
(* img.py: grid algebra.  A CellGrid is a sequence of rows, a row a        *)
(* sequence of cells; Python indices are 0-based, sequences 1-based.       *)
(***************************************************************************)
RECURSIVE flatten(_)
flatten(g) == IF g = <<>> THEN <<>> ELSE Head(g) \o flatten(Tail(g))

GridKeys(g) == UNION { {<<i - 1, j - 1>> : j \in 1..Len(g[i])} : i \in 1..Len(g) }

\* cell_grid_to_list: the cells in row-major order, and (i, j) -> list position
cell_grid_to_list(cell_grid) ==
    [cells   |-> flatten(cell_grid),
     mapping |-> [k \in GridKeys(cell_grid) |->
                     Len(flatten(SubSeq(cell_grid, 1, k[1]))) + k[2]]]

KeyLess(a, b) == a[1] < b[1] \/ (a[1] = b[1] /\ a[2] < b[2])

RECURSIVE sorted_keys(_)
\* sorted(list(mapping.keys()))
sorted_keys(S) ==
    IF S = {} THEN <<>>
    ELSE LET m == CHOOSE a \in S : \A b \in S \ {a} : KeyLess(a, b)
         IN  <<m>> \o sorted_keys(S \ {m})

RECURSIVE list_to_cell_grid_loop(_, _, _, _, _, _)
\* the loop of list_to_cell_grid from the k-th sorted key on; last_i = -1 is None
list_to_cell_grid_loop(cells, mapping, keys, k, cell_grid, last_i) ==
    IF k > Len(keys) THEN Returned("list_to_cell_grid", cell_grid)
    ELSE LET i == keys[k][1]
             opened == IF i # last_i THEN Append(cell_grid, <<>>) ELSE cell_grid
         IN  IF i >= Len(opened) THEN Raised("list_to_cell_grid", "IndexError")
             ELSE list_to_cell_grid_loop(
                      cells, mapping, keys, k + 1,
                      [opened EXCEPT ![i + 1] = Append(@, cells[mapping[keys[k]] + 1])],
                      i)

\* list_to_cell_grid(cells, mapping)
list_to_cell_grid(cells, mapping) ==
    list_to_cell_grid_loop(cells, mapping, sorted_keys(DOMAIN mapping), 1, <<>>, -1)

RECURSIVE select(_, _, _)
\* [s[r] for r in idx if 0 <= r < len(s)] from the k-th index on
select(s, idx, k) ==
    IF k > Len(idx) THEN <<>>
    ELSE (IF 0 <= idx[k] /\ idx[k] < Len(s) THEN <<s[idx[k] + 1]>> ELSE <<>>)
         \o select(s, idx, k + 1)

RECURSIVE sorted_ints(_)
sorted_ints(S) ==
    IF S = {} THEN <<>>
    ELSE LET m == CHOOSE a \in S : \A b \in S : a <= b
         IN  <<m>> \o sorted_ints(S \ {m})

Range(s) == {s[i] : i \in 1..Len(s)}

take_rows(cell_grid, rows) == select(cell_grid, rows, 1)

take_columns(cell_grid, columns) ==
    [r \in 1..Len(cell_grid) |-> select(cell_grid[r], columns, 1)]

drop_rows(cell_grid, rows) ==
    take_rows(cell_grid, sorted_ints((0..(Len(cell_grid) - 1)) \ Range(rows)))

drop_columns(cell_grid, columns) ==
    IF Len(cell_grid) = 0 THEN cell_grid
    ELSE take_columns(cell_grid,
                      sorted_ints((0..(Len(cell_grid[1]) - 1)) \ Range(columns)))

\* the grids the grid algebra starts from: dense, every cell labelled by its place
DenseGrid(R, C) == [i \in 1..R |-> [j \in 1..C |-> <<i - 1, j - 1>>]]

IndexLists == SeqsUpTo(0..(MaxGridSide - 1), MaxGridSide)

InitGrid ==
    /\ ApiIdle
    /\ \E R \in 0..MaxGridSide, C \in 1..MaxGridSide :
          input = [op |-> "none", grid |-> DenseGrid(R, C)]
    /\ output = NoOutput

TakeRows ==
    \E idx \in IndexLists :
        /\ input' = [op |-> "take_rows", grid |-> take_rows(input.grid, idx)]
        /\ output' = NoOutput
        /\ UNCHANGED <<files, request, response, posted>>

TakeColumns ==
    \E idx \in IndexLists :
        /\ input' = [op |-> "take_columns", grid |-> take_columns(input.grid, idx)]
        /\ output' = NoOutput
        /\ UNCHANGED <<files, request, response, posted>>

DropRows ==
    \E idx \in IndexLists :
        /\ input' = [op |-> "drop_rows", grid |-> drop_rows(input.grid, idx)]
        /\ output' = NoOutput
        /\ UNCHANGED <<files, request, response, posted>>

DropColumns ==
    \E idx \in IndexLists :
        /\ input' = [op |-> "drop_columns", grid |-> drop_columns(input.grid, idx)]
        /\ output' = NoOutput
        /\ UNCHANGED <<files, request, response, posted>>

\* list_to_cell_grid(*cell_grid_to_list(grid))
RoundTrip ==
    /\ output.op = "none"
    /\ LET l == cell_grid_to_list(input.grid)
       IN  output' = list_to_cell_grid(l.cells, l.mapping)
    /\ UNCHANGED <<files, request, response, posted, input>>

NextGrid == TakeRows \/ TakeColumns \/ DropRows \/ DropColumns \/ RoundTrip

SpecGrid == InitGrid /\ [][NextGrid]_vars

(***************************************************************************)
(* Claims about the grid algebra (checked under SpecGrid)                  *)
(***************************************************************************)
\* C5: for any CellGrid, rows with zero cells included, the round trip
\* list_to_cell_grid(*cell_grid_to_list(grid)) completes without error and
\* gives back a grid equal to the original.
C5_GridRoundTrip ==
    output.op = "list_to_cell_grid" => (output.ok /\ output.value = input.grid)

\* the round trip on the grids whose rows all hold at least one cell
C5_RoundTripNonEmptyRows ==
    ( /\ output.op = "list_to_cell_grid"
      /\ \A i \in 1..Len(input.grid) : Len(input.grid[i]) > 0 )
    => (output.ok /\ output.value = input.grid)

(***************************************************************************)
(* table_annotator.types: Point, Rectangle, Table                          *)
(***************************************************************************)
Point(x, y) == [x |-> x, y |-> y]

Rectangle(topLeft, bottomRight) == [topLeft |-> topLeft, bottomRight |-> bottomRight]

width(rect) == rect.bottomRight.x - rect.topLeft.x

height(rect) == rect.bottomRight.y - rect.topLeft.y

translate_point(p, offset) == Point(p.x + offset.x, p.y + offset.y)

translate(rect, offset) ==
    Rectangle(translate_point(rect.topLeft, offset),
              translate_point(rect.bottomRight, offset))

Table(outline, rows, columns, rotationDegrees) ==
    [outline |-> outline, rows |-> rows, columns |-> columns,
     rotationDegrees |-> rotationDegrees]

(***************************************************************************)
(* img.py: images are arrays [h, w, px], px[<<r, c>>] the pixel of row r,  *)
(* column c (1-based here, 0-based in numpy)                               *)
(***************************************************************************)
BORDER_OFFSET == 5

\* the pixel places of an h x w array
Cells(h, w) == (1..h) \X (1..w)

Array(h, w, px) == [h |-> h, w |-> w, px |-> px]

\* the index a slice bound i denotes on an axis of length n (Python slicing)
slice_index(n, i) == IF i < 0 THEN Max(i + n, 0) ELSE Min(i, n)

\* image[r0:r1, c0:c1]
slice2d(image, r0, r1, c0, c1) ==
    LET rl == slice_index(image.h, r0)
        rh == slice_index(image.h, r1)
        cl == slice_index(image.w, c0)
        ch == slice_index(image.w, c1)
        h == Max(0, rh - rl)
        w == Max(0, ch - cl)
    IN  Array(h, w, [q \in Cells(h, w) |-> image.px[<<q[1] + rl, q[2] + cl>>]])

\* a crop that forgets to clamp the top-left corner
crop_unclamped(image, rect) ==
    slice2d(image, rect.topLeft.y, Max(rect.bottomRight.y, 0),
                   rect.topLeft.x, Max(rect.bottomRight.x, 0))

\* crop(image, rect)
crop(image, rect) ==
    slice2d(image, Max(rect.topLeft.y, 0), Max(rect.bottomRight.y, 0),
                   Max(rect.topLeft.x, 0), Max(rect.bottomRight.x, 0))

\* rotate(image, degrees) = ndimage.rotate(image, degrees, reshape=False, order=0):
\* the shape is kept; modelled for the multiples of 180 degrees, where the
\* content is kept (0) or turned upside down about the centre (180)
rotate(image, degrees) ==
    IF degrees % 360 = 0 THEN image
    ELSE Array(image.h, image.w,
               [q \in Cells(image.h, image.w) |->
                   image.px[<<image.h + 1 - q[1], image.w + 1 - q[2]>>]])

\* an extraction that moves only the outline's bottom-right corner by the offset
extract_table_image_grown(image, table) ==
    crop(rotate(image, 0 - table.rotationDegrees),
         Rectangle(table.outline.topLeft,
                   translate_point(table.outline.bottomRight,
                                   Point(BORDER_OFFSET, BORDER_OFFSET))))

\* extract_table_image(image, table)
extract_table_image(image, table) ==
    crop(rotate(image, 0 - table.rotationDegrees),
         translate(table.outline, Point(BORDER_OFFSET, BORDER_OFFSET)))

RECURSIVE get_cell_grid_row(_, _, _, _)
\* the inner loop of get_cell_grid: the cells of grid row r_i from column c_i on
get_cell_grid_row(rows, columns, r_i, c_i) ==
    IF c_i >= Len(columns) - 1 THEN <<>>
    ELSE <<Rectangle(Point(columns[c_i + 1], rows[r_i + 1]),
                     Point(columns[c_i + 2], rows[r_i + 2]))>>
         \o get_cell_grid_row(rows, columns, r_i, c_i + 1)

RECURSIVE get_cell_grid_rows(_, _, _)
\* the outer loop of get_cell_grid from grid row r_i on
get_cell_grid_rows(rows, columns, r_i) ==
    IF r_i >= Len(rows) - 1 THEN <<>>
    ELSE <<get_cell_grid_row(rows, columns, r_i, 0)>>
         \o get_cell_grid_rows(rows, columns, r_i + 1)

\* a cell grid that leaves out the last boundary, the outline's far edge
get_cell_grid_open(table) ==
    get_cell_grid_rows(<<0>> \o table.rows,
                       <<0>> \o table.columns \o <<width(table.outline)>>, 0)

\* get_cell_grid(table)
get_cell_grid(table) ==
    get_cell_grid_rows(<<0>> \o table.rows \o <<height(table.outline)>>,
                       <<0>> \o table.columns \o <<width(table.outline)>>, 0)

(***************************************************************************)
(* crop on small images and arbitrary rectangles                           *)
(***************************************************************************)
\* a colour image whose pixels (b, g, r) tell their own place
PlaceImage(h, w) == Array(h, w, [q \in Cells(h, w) |-> <<q[1], q[2], 0>>])

CropCoords == (0 - CropMargin)..(MaxCropSide + CropMargin)

InitCrop ==
    /\ ApiIdle
    /\ \E h \in 1..MaxCropSide, w \in 1..MaxCropSide,
          x0 \in CropCoords, y0 \in CropCoords, x1 \in CropCoords, y1 \in CropCoords :
          input = [op |-> "none", image |-> PlaceImage(h, w),
                   rect |-> Rectangle(Point(x0, y0), Point(x1, y1))]
    /\ output = NoOutput

Crop ==
    /\ output.op = "none"
    /\ output' = Returned("crop", crop(input.image, input.rect))
    /\ UNCHANGED <<files, request, response, posted, input>>

NextCrop == Crop

SpecCrop == InitCrop /\ [][NextCrop]_vars

(***************************************************************************)
(* extract_table_image on images a little larger than the border offset    *)
(***************************************************************************)
ExtractSides == (BORDER_OFFSET + 1)..(BORDER_OFFSET + MaxExtent)

ExtractCoords == 0..(MaxExtent + 1)

InitExtract ==
    /\ ApiIdle
    /\ \E h \in ExtractSides, w \in ExtractSides, deg \in {0, 180},
          x0 \in ExtractCoords, y0 \in ExtractCoords,
          x1 \in ExtractCoords, y1 \in ExtractCoords :
          /\ x0 <= x1 /\ y0 <= y1
          /\ input = [op |-> "none", image |-> PlaceImage(h, w),
                      table |-> Table(Rectangle(Point(x0, y0), Point(x1, y1)),
                                      <<>>, <<>>, deg)]
    /\ output = NoOutput

ExtractTableImage ==
    /\ output.op = "none"
    /\ output' = Returned("extract_table_image",
                          extract_table_image(input.image, input.table))
    /\ UNCHANGED <<files, request, response, posted, input>>

NextExtract == ExtractTableImage

SpecExtract == InitExtract /\ [][NextExtract]_vars

(***************************************************************************)
(* get_cell_grid on tables with boundaries inside and outside the outline  *)
(***************************************************************************)
BoundaryValues == (0 - 1)..(MaxCellExtent + 1)

BoundaryLists == SeqsUpTo(BoundaryValues, MaxBoundaries)

InitCellGrid ==
    /\ ApiIdle
    /\ \E rows \in BoundaryLists, columns \in BoundaryLists,
          x0 \in 0..1, y0 \in 0..1, w \in 0..MaxCellExtent, h \in 0..MaxCellExtent :
          input = [op |-> "none",
                   table |-> Table(Rectangle(Point(x0, y0), Point(x0 + w, y0 + h)),
                                   rows, columns, 0)]
    /\ output = NoOutput

GetCellGrid ==
    /\ output.op = "none"
    /\ output' = Returned("get_cell_grid", get_cell_grid(input.table))
    /\ UNCHANGED <<files, request, response, posted, input>>

NextCellGrid == GetCellGrid

SpecCellGrid == InitCellGrid /\ [][NextCellGrid]_vars

(***************************************************************************)
(* Claims about crop, extract_table_image and get_cell_grid                *)
(***************************************************************************)
InsideImage(rect, image) ==
    /\ 0 <= rect.topLeft.x /\ rect.topLeft.x <= rect.bottomRight.x
    /\ 0 <= rect.topLeft.y /\ rect.topLeft.y <= rect.bottomRight.y
    /\ rect.bottomRight.x <= image.w
    /\ rect.bottomRight.y <= image.h

\* C6: for a well-formed outline lying inside the image, extract_table_image
\* returns an array of height outline.height() and width outline.width().
C6_ExtractShapeInsideImage ==
    ( /\ output.op = "extract_table_image"
      /\ InsideImage(input.table.outline, input.image) )
    => ( /\ output.value.h = height(input.table.outline)
         /\ output.value.w = width(input.table.outline) )

\* C6 as amended: the same, for an outline that still lies inside the image
\* after it has been moved by (BORDER_OFFSET, BORDER_OFFSET).
C6_ExtractShapeInsideAfterOffset ==
    ( /\ output.op = "extract_table_image"
      /\ InsideImage(translate(input.table.outline, Point(BORDER_OFFSET, BORDER_OFFSET)),
                     input.image) )
    => ( /\ output.value.h = height(input.table.outline)
         /\ output.value.w = width(input.table.outline) )

\* C6 witness: a turned image, a non-empty outline that fits after the offset,
\* extracted at the outline's size.
C6_Witness ==
    /\ output.op = "extract_table_image"
    /\ input.table.rotationDegrees = 180
    /\ InsideImage(translate(input.table.outline, Point(BORDER_OFFSET, BORDER_OFFSET)),
                   input.image)
    /\ height(input.table.outline) > 0
    /\ width(input.table.outline) > 1
    /\ output.value.h = height(input.table.outline)
    /\ output.value.w = width(input.table.outline)

\* C7: crop never fails; negative corner coordinates are clamped to 0, the far
\* bound is cut at the image edge, and the result has
\* max(0, min(max(bottomRight.y, 0), H) - max(topLeft.y, 0)) rows and
\* max(0, min(max(bottomRight.x, 0), W) - max(topLeft.x, 0)) columns, which
\* start at the clamped top-left corner.
C7_CropClampsAndTruncates ==
    output.op = "crop" =>
        LET H == input.image.h
            W == input.image.w
            r == input.rect
        IN  /\ output.ok
            /\ output.value.h = Max(0, Min(Max(r.bottomRight.y, 0), H) - Max(r.topLeft.y, 0))
            /\ output.value.w = Max(0, Min(Max(r.bottomRight.x, 0), W) - Max(r.topLeft.x, 0))
            /\ \A q \in DOMAIN output.value.px :
                  output.value.px[q] =
                      input.image.px[<<q[1] + Max(r.topLeft.y, 0), q[2] + Max(r.topLeft.x, 0)>>]

\* C7 witness: the oversized rectangle, negative at the top left and past the
\* far edge at the bottom right, cropped to the whole image.
C7_Witness ==
    /\ output.op = "crop"
    /\ input.rect.topLeft.x < 0 /\ input.rect.topLeft.y < 0
    /\ input.rect.bottomRight.x > input.image.w
    /\ input.rect.bottomRight.y > input.image.h
    /\ input.image.h # input.image.w
    /\ output.value.h = input.image.h
    /\ output.value.w = input.image.w

\* C8: for R row boundaries and C column boundaries get_cell_grid gives R+1
\* rows of C+1 cells each, cell (i, j) being the rectangle from
\* (cols[j], rws[i]) to (cols[j+1], rws[i+1]), rws = [0] + rows + [height],
\* cols = [0] + columns + [width].
C8_CellGridShapeAndCells ==
    output.op = "get_cell_grid" =>
        LET t == input.table
            rws == <<0>> \o t.rows \o <<height(t.outline)>>
            cols == <<0>> \o t.columns \o <<width(t.outline)>>
            grid == output.value
        IN  /\ Len(grid) = Len(t.rows) + 1
            /\ \A i \in 1..Len(grid) :
                  /\ Len(grid[i]) = Len(t.columns) + 1
                  /\ \A j \in 1..Len(grid[i]) :
                        grid[i][j] = Rectangle(Point(cols[j], rws[i]),
                                               Point(cols[j + 1], rws[i + 1]))

\* C8 witness: a table with a row boundary outside its outline and a column
\* boundary, turned into a 2 x 2 grid.
C8_Witness ==
    /\ output.op = "get_cell_grid"
    /\ Len(input.table.rows) = 1
    /\ Len(input.table.columns) = 1
    /\ input.table.rows[1] > height(input.table.outline)
    /\ Len(output.value) = 2
    /\ Len(output.value[2]) = 2

(***************************************************************************)
(* img.py: get_table_image_bw and predict_next_row_position                *)
(***************************************************************************)
ROW_COLUMN_WIDTH == 3

search_area == 10

\* np.histogram(..., bins=range(0, 256, 51)): five bins, the last one closed
BinWidth == 51

NumBins == 5

\* table_annotator.io.read_image(path) on the files of `disk`
read_image(disk, path) ==
    IF path \in DOMAIN disk THEN Returned("read_image", disk[path])
    ELSE Raised("read_image", "NotFound")

\* cv2.cvtColor(image, cv2.COLOR_BGR2GRAY) of one 8-bit pixel (b, g, r)
bgr2gray(pixel) == (pixel[1] * 1868 + pixel[2] * 9617 + pixel[3] * 4899 + 8192) \div 16384

\* get_table_image_bw(image_path, table_outline, rotation_degrees); the
\* colour conversion rejects an empty crop
get_table_image_bw(disk, image_path, table_outline, rotation_degrees) ==
    LET image == read_image(disk, image_path)
    IN  IF ~image.ok THEN Raised("get_table_image_bw", image.err)
        ELSE LET table_image ==
                     crop(rotate(image.value, 0 - rotation_degrees),
                          translate(table_outline, Point(BORDER_OFFSET, BORDER_OFFSET)))
             IN  IF table_image.h = 0 \/ table_image.w = 0
                 THEN Raised("get_table_image_bw", "cv2.error")
                 ELSE Returned("get_table_image_bw",
                               Array(table_image.h, table_image.w,
                                     [q \in DOMAIN table_image.px |->
                                         bgr2gray(table_image.px[q])]))

\* np.histogram(row_img, bins=range(0, 256, 51))[0]
histogram(row_img) ==
    [b \in 1..NumBins |->
        Cardinality({q \in DOMAIN row_img.px :
                        Min(row_img.px[q] \div BinWidth, NumBins - 1) + 1 = b})]

RECURSIVE dot_from(_, _, _)
dot_from(a, b, k) == IF k > NumBins THEN 0 ELSE a[k] * b[k] + dot_from(a, b, k + 1)

\* np.dot(a, b)
dot(a, b) == dot_from(a, b, 1)

\* cosine_similarity(a, b) is nan: a zero count vector makes it 0 / 0
similarity_is_nan(a, b) == dot(a, a) = 0 \/ dot(b, b) = 0

\* cosine_similarity(a, b) > cosine_similarity(a, c), neither being nan;
\* the counts are non-negative, so the squares compare as the values do
\* (the quotients are compared exactly, without floating-point rounding)
similarity_greater(a, b, c) ==
    dot(a, b) * dot(a, b) * dot(c, c) > dot(a, c) * dot(a, c) * dot(b, b)

\* np.argmax over the similarities of the candidates' count vectors (1-based):
\* the first nan if there is one, else the first maximum
argmax_similarity(prev, counts) ==
    LET K == 1..Len(counts)
        nans == {k \in K : similarity_is_nan(prev, counts[k])}
        best == {k \in K : \A j \in K : ~similarity_greater(prev, counts[j], counts[k])}
    IN  IF nans # {} THEN CHOOSE k \in nans : \A j \in nans : k <= j
        ELSE CHOOSE k \in best : \A j \in best : k <= j

\* the candidate positions without the "crp < table.outline.height()" filter
candidates_unfiltered(lo, hi, limit) == [k \in 1..(hi - lo) |-> lo + k - 1]

\* [crp for crp in range(lo, hi) if crp < limit]
candidates_below(lo, hi, limit) ==
    LET top == Min(hi, limit) - 1
    IN  [k \in 1..Max(0, top - lo + 1) |-> lo + k - 1]

\* predict_next_row_position(image_path, table); None is <<>>, a position p is <<p>>
predict_next_row_position(disk, image_path, table) ==
    IF Len(table.rows) = 0 THEN Returned("predict_next_row_position", <<>>)
    ELSE
    LET n == Len(table.rows)
        last_row_height == IF n = 1 THEN table.rows[1]
                           ELSE table.rows[n] - table.rows[n - 1]
        loaded == get_table_image_bw(disk, image_path, table.outline,
                                     table.rotationDegrees)
        table_image == loaded.value
        last_row_position == table.rows[n]
        next_row_position_search_center == last_row_position + last_row_height
        candidate_row_positions ==
            candidates_below(next_row_position_search_center - search_area,
                             next_row_position_search_center + search_area,
                             height(table.outline))
        row_image(row_pos) ==
            slice2d(table_image, row_pos, row_pos + ROW_COLUMN_WIDTH, 0, table_image.w)
        prev_row_discretized_counts == histogram(row_image(last_row_position))
        candidate_rows_discretized_counts ==
            [k \in 1..Len(candidate_row_positions) |->
                histogram(row_image(candidate_row_positions[k]))]
        max_sim_position ==
            argmax_similarity(prev_row_discretized_counts,
                              candidate_rows_discretized_counts)
    IN  IF ~loaded.ok THEN Raised("predict_next_row_position", loaded.err)
        ELSE IF Len(candidate_row_positions) = 0
        THEN Returned("predict_next_row_position", <<>>)
        ELSE Returned("predict_next_row_position",
                      <<candidate_row_positions[max_sim_position]>>)

(***************************************************************************)
(* predict_next_row_position on ruled photographs                          *)
(***************************************************************************)
White == <<255, 255, 255>>

Black == <<0, 0, 0>>

Green == <<0, 255, 0>>

\* the shades of successive pixel rows, repeated down the photograph
Rulings == { <<White>>, <<Black, White>>, <<Green, White, White>> }

RuledImage(h, w, ruling) ==
    Array(h, w, [q \in Cells(h, w) |-> ruling[((q[1] - 1) % Len(ruling)) + 1]])

TablePath == "table.jpg"

\* the photograph is one row too short for the tallest outline
PhotoHeight == BORDER_OFFSET + MaxTableH - 1

PhotoWidth == BORDER_OFFSET + 1

InitPredict ==
    /\ ApiIdle
    /\ \E rows \in SeqsUpTo(0..MaxRowPos, MaxRows), h \in 0..MaxTableH, deg \in {0, 180},
          disk \in {<<>>} \cup
                   {[path \in {TablePath} |-> RuledImage(PhotoHeight, PhotoWidth, g)]
                       : g \in Rulings} :
          input = [op |-> "none", disk |-> disk, image_path |-> TablePath,
                   table |-> Table(Rectangle(Point(0, 0), Point(1, h)), rows, <<>>, deg)]
    /\ output = NoOutput

PredictNextRowPosition ==
    /\ output.op = "none"
    /\ output' = predict_next_row_position(input.disk, input.image_path, input.table)
    /\ UNCHANGED <<files, request, response, posted, input>>

NextPredict == PredictNextRowPosition

SpecPredict == InitPredict /\ [][NextPredict]_vars

(***************************************************************************)
(* Claims about predict_next_row_position (checked under SpecPredict)      *)
(***************************************************************************)
LastRow(t) == t.rows[Len(t.rows)]

SearchCenter(t) ==
    IF Len(t.rows) = 1 THEN 2 * t.rows[1]
    ELSE 2 * LastRow(t) - t.rows[Len(t.rows) - 1]

\* the candidate offsets of [search_center - 10, search_center + 10) below the height
CandidateOffsets(t) ==
    {c \in (SearchCenter(t) - 10)..(SearchCenter(t) + 9) : c < height(t.outline)}

Absent == Returned("predict_next_row_position", <<>>)

TableImageLoads ==
    get_table_image_bw(input.disk, input.image_path, input.table.outline,
                       input.table.rotationDegrees).ok

\* C9: predict_next_row_position returns absent when table.rows is empty,
\* returns absent when no candidate offset is below outline.height(), and in
\* every other case returns one of the candidate offsets below that height.
C9_PredictAbsentOrCandidate ==
    output.op = "predict_next_row_position" =>
        LET t == input.table
        IN  IF Len(t.rows) = 0 THEN output = Absent
            ELSE IF CandidateOffsets(t) = {} THEN output = Absent
            ELSE /\ output.ok
                 /\ Len(output.value) = 1
                 /\ output.value[1] \in CandidateOffsets(t)

\* C9 as amended: absent on empty rows whatever the image path; with rows
\* recorded the table image is loaded first, the call failing with the
\* loader's error when it cannot be; when it loads, absent without a
\* candidate below the height and else one of those candidates.
C9_PredictAbsentCandidateOrLoadError ==
    output.op = "predict_next_row_position" =>
        LET t == input.table
        IN  IF Len(t.rows) = 0 THEN output = Absent
            ELSE IF ~TableImageLoads THEN ~output.ok
            ELSE IF CandidateOffsets(t) = {} THEN output = Absent
            ELSE /\ output.ok
                 /\ Len(output.value) = 1
                 /\ output.value[1] \in CandidateOffsets(t)

\* C9 witness: two recorded rows, a loaded table image, and a candidate
\* offset returned although some offsets of the range were discarded.
C9_Witness ==
    /\ output.op = "predict_next_row_position"
    /\ Len(input.table.rows) = 2
    /\ TableImageLoads
    /\ output.ok
    /\ Len(output.value) = 1
    /\ output.value[1] \in CandidateOffsets(input.table)
    /\ SearchCenter(input.table) + 9 >= height(input.table.outline)

RowsSortedInside(t) ==
    /\ \A i \in 1..Len(t.rows) : 0 <= t.rows[i] /\ t.rows[i] < height(t.outline)
    /\ \A i \in 1..(Len(t.rows) - 1) : t.rows[i] <= t.rows[i + 1]

\* C10: a returned offset p, for rows sorted ascending inside
\* [0, outline.height()), is a valid further row boundary:
\* 0 <= p < outline.height() and p is above the last recorded row offset.
C10_PredictedRowIsValid ==
    ( /\ output.op = "predict_next_row_position"
      /\ output.ok
      /\ Len(output.value) = 1
      /\ RowsSortedInside(input.table) )
    => ( /\ 0 <= output.value[1]
         /\ output.value[1] < height(input.table.outline)
         /\ output.value[1] > LastRow(input.table) )

====
